---- MODULE Spec2Model ----
(***************************************************************************)
(* Morning Butler dashboard (src/static/dashboard.js): the seen-state      *)
(* store, the assignment and announcement normalizers, search, sort and    *)
(* the default-view window of the assignment list with its controls, the   *)
(* click handlers and the notification policy, as a state machine.         *)
(*                                                                         *)
(* Strings whose characters matter (names, courses, titles, ids, bodies)   *)
(* are sequences of one-character strings.  Instants are integers counted  *)
(* in ticks, DayLen ticks to a local calendar day (the source counts       *)
(* milliseconds, 86400000 to a day; daylight-saving days are not           *)
(* modelled).  A JavaScript value that may be null, an Invalid Date or a   *)
(* Date is a record [kind, time] so that every comparison is typed.        *)
(***************************************************************************)
EXTENDS Integers, Sequences, FiniteSets, TLC

VARIABLES
    now,               \* the wall clock read by new Date()
    userConfig,        \* /user_config.json as served to loadConfig
    canvasData,        \* /canvas_data as served to fetchCanvasData
    hasNotification,   \* 'Notification' in window
    permission,        \* Notification.permission
    promptOpen,        \* a permission prompt is waiting for the user
    seenStored,        \* localStorage[SEEN_ANNOUNCEMENTS_KEY]
    notifyKeys,        \* expirations e with localStorage["canvasTokenExpiryNotified:e"] set
    pc,                \* the page: "unloaded", "ready", "failed"; "input", "formatted", "reshortened" for the normalizer alone
    allAssignments,    \* renderDashboard's allAssignments
    allAnnouncements,  \* renderDashboard's allAnnouncements
    announcementsList, \* the items of #announcements-list, each its dataset
    lastPass,          \* what the most recent sendNotifications did
    expiryFired,       \* per expiration date, how many expiry notifications were emitted so far
    lastOp,            \* the operation that produced this state, with its arguments and outcome
    reshortened,       \* shortenAssignmentName applied to a shortName
    assignmentFilters, \* config.assignmentFilters
    filteredAssignments, \* renderDashboard's filteredAssignments
    renderToday,       \* renderDashboard's today, read from the clock once per page load
    showAllAssignments, \* renderDashboard's showAllAssignments
    toggleText,        \* the label of #toggle-assignments
    searchValue,       \* the text in #assignment-search
    sortValue,         \* the option selected in #assignment-sort
    assignmentsList,   \* the items of #assignments-list
    lastRender,        \* the arguments of the most recent renderAssignmentsFiltered
    clickListeners,    \* per list container, how many click listeners are attached
    windowsOpened,     \* how many window.open calls the operation that produced this state made
    sortResults        \* per sort key applied so far, what sortAssignments returned

vars == <<now, userConfig, canvasData, hasNotification, permission, promptOpen,
          seenStored, notifyKeys, pc, allAssignments, allAnnouncements,
          announcementsList, lastPass, expiryFired, lastOp, reshortened,
          assignmentFilters, filteredAssignments, renderToday, showAllAssignments,
          toggleText, searchValue, sortValue, assignmentsList, lastRender,
          clickListeners, windowsOpened, sortResults>>

\* the state of the assignment list and its controls
viewVars == <<filteredAssignments, renderToday, showAllAssignments, toggleText,
              searchValue, sortValue, assignmentsList, lastRender>>

-----------------------------------------------------------------------------
(* Bounds of the model *)

DayLen == 2
MaxNow == 3
MaxAssignments == 3
MaxAnnouncements == 3
MaxPrefix == 36
MaxSuffix == 47
MaxListeners == 4

(* Constants of the program *)

DefaultMaxLen == 45
MinLastPart == 10
WeekDays == 7
WarnDays == 7
BodyItems == 2
DefaultSlice == 2

-----------------------------------------------------------------------------
(* Characters and strings *)

EnDash == "EN DASH"
EmDash == "EM DASH"
Ellipsis == "ELLIPSIS"
Separators == {":", "-", EnDash, EmDash}
Whitespace == {" "}

Rep(c, n) == [i \in 1..n |-> c]

Min(a, b) == IF a <= b THEN a ELSE b

\* String.prototype.substring(0, n)
Substring0(s, n) == SubSeq(s, 1, Min(n, Len(s)))

\* String.prototype.split(/[:\-–—]/): the parts between separator characters
RECURSIVE Split(_)
Split(s) ==
    IF \A i \in 1..Len(s) : s[i] \notin Separators
    THEN <<s>>
    ELSE LET k == CHOOSE i \in 1..Len(s) :
                      /\ s[i] \in Separators
                      /\ \A j \in 1..(i - 1) : s[j] \notin Separators
         IN <<SubSeq(s, 1, k - 1)>> \o Split(SubSeq(s, k + 1, Len(s)))

\* String.prototype.trim()
Trim(s) ==
    LET keep == {i \in 1..Len(s) : s[i] \notin Whitespace}
    IN IF keep = {} THEN <<>>
       ELSE LET lo == CHOOSE i \in keep : \A j \in keep : i <= j
                hi == CHOOSE i \in keep : \A j \in keep : j <= i
            IN SubSeq(s, lo, hi)

\* String.prototype.replace(/\s+/g, '_'): every run of whitespace becomes one underscore
RECURSIVE ReplaceWhitespace(_)
ReplaceWhitespace(s) ==
    IF s = <<>> THEN <<>>
    ELSE IF Head(s) \in Whitespace
         THEN IF Len(s) > 1 /\ s[2] \in Whitespace
              THEN ReplaceWhitespace(Tail(s))
              ELSE <<"_">> \o ReplaceWhitespace(Tail(s))
         ELSE <<Head(s)>> \o ReplaceWhitespace(Tail(s))

\* Array.prototype.join(', ')
RECURSIVE Join(_)
Join(parts) ==
    IF parts = <<>> THEN <<>>
    ELSE IF Len(parts) = 1 THEN parts[1]
         ELSE parts[1] \o <<",", " ">> \o Join(Tail(parts))

-----------------------------------------------------------------------------
(* Dates *)

NullDate == [kind |-> "null", time |-> 0]
InvalidDate == [kind |-> "invalid", time |-> 0]
DateOf(t) == [kind |-> "date", time |-> t]

\* a raw timestamp field: absent (null, undefined or ""), text that does not parse, or ISO text
NoTimestamp == [kind |-> "absent", t |-> 0]
Garbage == [kind |-> "garbage", t |-> 0]
Iso(t) == [kind |-> "iso", t |-> t]

\* new Date(text)
NewDate(raw) == IF raw.kind = "iso" THEN DateOf(raw.t) ELSE InvalidDate

\* Date.prototype.setHours(0, 0, 0, 0)
StartOfDay(d) == IF d.kind = "date" THEN DateOf(d.time - (d.time % DayLen)) ELSE d

\* d.setDate(d.getDate() + n)
AddDays(d, n) == IF d.kind = "date" THEN DateOf(d.time + n * DayLen) ELSE d

\* Date.prototype.setHours(23, 59, 59, 999): the last instant of d's day
EndOfDay(d) == IF d.kind = "date" THEN DateOf(StartOfDay(d).time + DayLen - 1) ELSE d

\* a <= b on Dates: false when either is an Invalid Date (NaN)
DateLE(a, b) == a.kind = "date" /\ b.kind = "date" /\ a.time <= b.time

\* a.getTime() === b.getTime()
SameTime(a, b) == a.kind = "date" /\ b.kind = "date" /\ a.time = b.time

\* Math.ceil(a / b) for b > 0
CeilDiv(a, b) == -((-a) \div b)

\* toLocaleString([], {month, day, hour, minute})
ToLocaleString(d) ==
    IF d.kind = "date"
    THEN [text |-> "date", day |-> d.time \div DayLen, tick |-> d.time % DayLen]
    ELSE [text |-> "Invalid Date", day |-> 0, tick |-> 0]

PlainText(s) == [text |-> s, day |-> 0, tick |-> 0]

-----------------------------------------------------------------------------
(* Seen announcements (local state) *)

EmptyLedger == [k \in {} |-> 0]

\* the value under SEEN_ANNOUNCEMENTS_KEY: never written, JSON text of a ledger, or text that is no JSON
NotStored == [kind |-> "absent", obj |-> EmptyLedger]
Corrupted == [kind |-> "corrupt", obj |-> EmptyLedger]

\* JSON.stringify(seen)
JSONstringify(obj) == [kind |-> "json", obj |-> obj]

\* JSON.parse(stored): throws a SyntaxError on text that is no JSON
JSONparse(stored) ==
    IF stored.kind = "json"
    THEN [threw |-> FALSE, value |-> stored.obj]
    ELSE [threw |-> TRUE, value |-> EmptyLedger]

getSeenAnnouncements(stored) ==
    IF stored.kind # "absent"
    THEN JSONparse(stored)
    ELSE [threw |-> FALSE, value |-> EmptyLedger]

\* seen[id] = postedAt
Assign(seen, id, postedAt) ==
    [k \in (DOMAIN seen) \cup {id} |-> IF k = id THEN postedAt ELSE seen[k]]

\* markAnnouncementSeen starting from an empty object instead of the stored ledger
markAnnouncementSeenFresh(stored, id, postedAt) ==
    [threw |-> FALSE, stored |-> JSONstringify(Assign(EmptyLedger, id, postedAt))]

\* the stored value markAnnouncementSeen leaves, and whether it threw
markAnnouncementSeen(stored, id, postedAt) ==
    LET seen == getSeenAnnouncements(stored)
    IN IF seen.threw
       THEN [threw |-> TRUE, stored |-> stored]
       ELSE [threw |-> FALSE,
             stored |-> JSONstringify(Assign(seen.value, id, postedAt))]

isAnnouncementSeen(stored, id) ==
    LET seen == getSeenAnnouncements(stored)
    IN IF seen.threw
       THEN [threw |-> TRUE, value |-> FALSE]
       ELSE [threw |-> FALSE, value |-> id \in DOMAIN seen.value]

-----------------------------------------------------------------------------
(* Assignment helper *)

shortenAssignmentName(fullName, maxLen) ==
    IF Len(fullName) <= maxLen THEN fullName
    ELSE LET parts == Split(fullName)
             lastPart == Trim(parts[Len(parts)])
         IN IF /\ Len(parts) > 1
               /\ Len(lastPart) > MinLastPart
               /\ Len(lastPart) <= maxLen
            THEN lastPart
            ELSE Substring0(fullName, maxLen) \o <<Ellipsis>>

-----------------------------------------------------------------------------
(* Format data *)

\* OneWeekOut without the setHours(23, 59, 59, 999)
OneWeekOutMidnight(today) == AddDays(today, WeekDays)

\* oneWeekOut: seven days after the start of today, at 23:59:59.999
OneWeekOut(today) == EndOfDay(AddDays(today, WeekDays))

\* const dueDate = a.due_at ? new Date(a.due_at) : null
DueDateOf(a) == IF a.due_at.kind # "absent" THEN NewDate(a.due_at) ELSE NullDate

StatusOf(a) ==
    IF a.submission.present
    THEN IF a.submission.workflow_state = "graded"
         THEN IF a.submission.grade # ""
              THEN "Graded: " \o a.submission.grade
              ELSE "Graded"
         ELSE IF a.submission.workflow_state = "submitted"
              THEN "Submitted"
              ELSE "Not submitted"
    ELSE "Not submitted"

\* urgency: "today", "week", or "none" for null
UrgencyOf(dueDate, today, tomorrowStart, oneWeekOut) ==
    IF dueDate.kind # "null"
    THEN IF SameTime(StartOfDay(dueDate), today) THEN "today"
         ELSE IF DateLE(tomorrowStart, dueDate) /\ DateLE(dueDate, oneWeekOut)
              THEN "week"
              ELSE "none"
    ELSE "none"

\* dueDate && dueDate >= now && dueDate <= oneWeekOut, as a truth value (null is falsy)
IsUrgentOf(dueDate, startNow, oneWeekOut) ==
    /\ dueDate.kind # "null"
    /\ DateLE(startNow, dueDate)
    /\ DateLE(dueDate, oneWeekOut)

\* the callback of the map in formatAssignmentData; t is the instant new Date() returned
FormatAssignment(a, t) ==
    LET startNow == StartOfDay(DateOf(t))
        oneWeekOut == OneWeekOut(startNow)
        today == StartOfDay(startNow)
        tomorrowStart == AddDays(today, 1)
        dueDate == DueDateOf(a)
    IN [course |-> a.course,
        name |-> a.name,
        shortName |-> shortenAssignmentName(a.name, DefaultMaxLen),
        due |-> IF dueDate.kind # "null" THEN ToLocaleString(dueDate)
                ELSE PlainText("No due date"),
        dueDate |-> a.due_at,
        status |-> StatusOf(a),
        url |-> IF a.submission.present THEN a.submission.preview_url ELSE "",
        isUrgent |-> IsUrgentOf(dueDate, startNow, oneWeekOut),
        hasDueDate |-> dueDate.kind # "null",
        urgency |-> UrgencyOf(dueDate, today, tomorrowStart, oneWeekOut)]

formatAssignmentData(data, t) ==
    [i \in 1..Len(data.assignments) |-> FormatAssignment(data.assignments[i], t)]

\* `${a.course}_${a.title}`.replace(/\s+/g, '_')
AnnouncementId(a) == ReplaceWhitespace(a.course \o <<"_">> \o a.title)

\* [threw, value]: the views, or the exception of getSeenAnnouncements
formatAnnouncementData(data, stored) ==
    IF getSeenAnnouncements(stored).threw
    THEN [threw |-> TRUE, value |-> <<>>]
    ELSE [threw |-> FALSE,
          value |-> [i \in 1..Len(data.announcements) |->
                        LET a == data.announcements[i]
                            id == AnnouncementId(a)
                        IN [course |-> a.course,
                            title |-> a.title,
                            posted |-> IF a.posted.kind # "absent"
                                       THEN ToLocaleString(NewDate(a.posted))
                                       ELSE PlainText(""),
                            id |-> id,
                            isSeen |-> isAnnouncementSeen(stored, id).value,
                            url |-> a.url]]]

-----------------------------------------------------------------------------
(* Search and sort *)

Uppers == <<"A", "B", "C", "D", "E", "F", "G", "H", "I", "J", "K", "L", "M",
            "N", "O", "P", "Q", "R", "S", "T", "U", "V", "W", "X", "Y", "Z">>
Lowers == <<"a", "b", "c", "d", "e", "f", "g", "h", "i", "j", "k", "l", "m",
            "n", "o", "p", "q", "r", "s", "t", "u", "v", "w", "x", "y", "z">>

\* String.prototype.toLowerCase()
ToLowerCase(s) ==
    [i \in 1..Len(s) |->
        IF \E k \in 1..Len(Uppers) : Uppers[k] = s[i]
        THEN Lowers[CHOOSE k \in 1..Len(Uppers) : Uppers[k] = s[i]]
        ELSE s[i]]

\* String.prototype.includes(q)
Includes(s, q) ==
    \E i \in 0..(Len(s) - Len(q)) : SubSeq(s, i + 1, i + Len(q)) = q

searchAssignments(assignments, query) ==
    IF query = <<>> THEN assignments
    ELSE LET lq == ToLowerCase(query)
         IN SelectSeq(assignments,
                      LAMBDA a : \/ Includes(ToLowerCase(a.name), lq)
                                 \/ Includes(ToLowerCase(a.course), lq))

\* the characters of a status text
CharsOf(status) ==
    CASE status = "Graded" -> <<"G", "r", "a", "d", "e", "d">>
      [] status = "Graded: A" -> <<"G", "r", "a", "d", "e", "d", ":", " ", "A">>
      [] status = "Submitted" -> <<"S", "u", "b", "m", "i", "t", "t", "e", "d">>
      [] OTHER -> <<"N", "o", "t", " ", "s", "u", "b", "m", "i", "t", "t", "e", "d">>

\* the collation order of localeCompare: punctuation, digits, then letters, a letter's
\* lower case before its upper case when nothing else tells two strings apart
Collation == <<" ", "_", "-", ":", "0", "1", "2", "3", "4", "5", "6", "7", "8", "9">> \o Lowers
CharRank(c) ==
    IF \E k \in 1..Len(Collation) : Collation[k] = c
    THEN CHOOSE k \in 1..Len(Collation) : Collation[k] = c
    ELSE Len(Collation) + 1

\* lexicographic comparison of two sequences of ranks: -1, 0 or 1
RECURSIVE LexCompare(_, _)
LexCompare(x, y) ==
    IF x = <<>> THEN (IF y = <<>> THEN 0 ELSE -1)
    ELSE IF y = <<>> THEN 1
    ELSE IF Head(x) < Head(y) THEN -1
    ELSE IF Head(x) > Head(y) THEN 1
    ELSE LexCompare(Tail(x), Tail(y))

\* String.prototype.localeCompare: the sign of the comparison
localeCompare(a, b) ==
    LET la == ToLowerCase(a)
        lb == ToLowerCase(b)
        primary == LexCompare([i \in 1..Len(la) |-> CharRank(la[i])],
                              [i \in 1..Len(lb) |-> CharRank(lb[i])])
    IN IF primary # 0 THEN primary
       ELSE LexCompare([i \in 1..Len(a) |-> IF a[i] = la[i] THEN 0 ELSE 1],
                       [i \in 1..Len(b) |-> IF b[i] = lb[i] THEN 0 ELSE 1])

\* a number that may be infinite: inf is -1, 0 or 1
Finite(t) == [inf |-> 0, t |-> t]
Infinity(sign) == [inf |-> sign, t |-> 0]

\* dateValue with missing dates at +Infinity in both directions
dateValueFarFuture(a, direction) ==
    IF ~a.hasDueDate \/ a.dueDate.kind = "absent"
    THEN Infinity(1)
    ELSE IF NewDate(a.dueDate).kind # "date"
         THEN Infinity(1)
         ELSE Finite(NewDate(a.dueDate).time)

\* dateValue of sortAssignments
dateValue(a, direction) ==
    IF ~a.hasDueDate \/ a.dueDate.kind = "absent"
    THEN (IF direction = "asc" THEN Infinity(1) ELSE Infinity(-1))
    ELSE IF NewDate(a.dueDate).kind # "date"
         THEN (IF direction = "asc" THEN Infinity(1) ELSE Infinity(-1))
         ELSE Finite(NewDate(a.dueDate).time)

\* the sign of x - y as Array.prototype.sort reads it: NaN (Infinity - Infinity) counts as 0
SignOfDifference(x, y) ==
    IF x.inf # 0 /\ x.inf = y.inf THEN 0
    ELSE IF x.inf # 0 THEN x.inf
    ELSE IF y.inf # 0 THEN -y.inf
    ELSE IF x.t < y.t THEN -1
    ELSE IF x.t > y.t THEN 1
    ELSE 0

\* the comparator sortAssignments hands to sort for the key sortBy
Comparator(a, b, sortBy) ==
    CASE sortBy = "due-desc" -> SignOfDifference(dateValue(b, "desc"), dateValue(a, "desc"))
      [] sortBy = "course" -> localeCompare(a.course, b.course)
      [] sortBy = "status" -> localeCompare(CharsOf(a.status), CharsOf(b.status))
      [] OTHER -> SignOfDifference(dateValue(a, "asc"), dateValue(b, "asc"))

\* Array.prototype.sort is stable: x goes behind every element that does not compare after it
RECURSIVE Insert(_, _, _)
Insert(sorted, x, sortBy) ==
    IF sorted = <<>> THEN <<x>>
    ELSE IF Comparator(sorted[Len(sorted)], x, sortBy) > 0
         THEN Insert(SubSeq(sorted, 1, Len(sorted) - 1), x, sortBy)
                  \o <<sorted[Len(sorted)]>>
         ELSE sorted \o <<x>>

RECURSIVE sortAssignments(_, _)
sortAssignments(assignments, sortBy) ==
    IF assignments = <<>> THEN <<>>
    ELSE Insert(sortAssignments(SubSeq(assignments, 1, Len(assignments) - 1), sortBy),
                assignments[Len(assignments)], sortBy)

-----------------------------------------------------------------------------
(* Reveal and click handlers *)

\* item.url and item.announcementId as revealItems reads them: a field the item lacks is undefined
UrlOf(item) == IF "url" \in DOMAIN item THEN item.url ELSE ""
AnnouncementIdOf(item) ==
    IF "announcementId" \in DOMAIN item THEN item.announcementId ELSE <<>>

\* the .list-item elements revealItems builds: each element's dataset and the item its text shows
\* ("" and <<>> stand for a dataset entry that was not set)
revealItems(items) ==
    [i \in 1..Len(items) |->
        [url |-> UrlOf(items[i]),
         announcementId |-> AnnouncementIdOf(items[i]),
         item |-> items[i]]]

\* the listener of setupClickHandlers on element el at instant t:
\* the stored ledger it leaves, the URL it opens ("" for none), whether it threw
ClickHandler(el, stored, t) ==
    LET marked == IF el.announcementId # <<>>
                  THEN markAnnouncementSeen(stored, el.announcementId, t)
                  ELSE [threw |-> FALSE, stored |-> stored]
    IN [stored |-> marked.stored,
        threw |-> marked.threw,
        opened |-> IF ~marked.threw THEN el.url ELSE ""]

-----------------------------------------------------------------------------
(* The assignment list *)

\* config.assignmentFilters: hideNoDueDate is "unset", "true" or "false", defaultView "" when unset
NoFilters == [hideNoDueDate |-> "unset", hideCompleted |-> FALSE, defaultView |-> ""]

\* assignmentFilters.hideNoDueDate !== false
HideNoDueDateOf(filters) == filters.hideNoDueDate # "false"

\* assignmentFilters.defaultView || 'week'
DefaultViewOf(filters) == IF filters.defaultView = "" THEN "week" ELSE filters.defaultView

\* status.startsWith('graded') || status.startsWith('submitted'), status in lower case
IsCompleted(status) ==
    LET lower == ToLowerCase(CharsOf(status))
    IN \/ Substring0(lower, 6) = <<"g", "r", "a", "d", "e", "d">>
       \/ Substring0(lower, 9) = <<"s", "u", "b", "m", "i", "t", "t", "e", "d">>

\* the configured filters of renderDashboard
ConfiguredFilters(assignments, filters) ==
    LET dated == IF HideNoDueDateOf(filters)
                 THEN SelectSeq(assignments, LAMBDA a : a.hasDueDate)
                 ELSE assignments
    IN IF filters.hideCompleted
       THEN SelectSeq(dated, LAMBDA a : ~IsCompleted(a.status))
       ELSE dated

\* renderDashboard's oneWeekOut
ViewOneWeekOut(day) == EndOfDay(AddDays(day, WeekDays))

\* applyDefaultViewFilter where "day" is handled like "week"
applyDefaultViewFilterWeekOnly(items, defaultView, day) ==
    IF defaultView \in {"day", "week"}
    THEN SelectSeq(items,
            LAMBDA a : /\ a.hasDueDate
                       /\ DateLE(day, StartOfDay(NewDate(a.dueDate)))
                       /\ DateLE(StartOfDay(NewDate(a.dueDate)), ViewOneWeekOut(day)))
    ELSE items

applyDefaultViewFilter(items, defaultView, day) ==
    IF defaultView = "day"
    THEN SelectSeq(items,
            LAMBDA a : /\ a.hasDueDate
                       /\ SameTime(StartOfDay(NewDate(a.dueDate)), day))
    ELSE IF defaultView = "week"
    THEN SelectSeq(items,
            LAMBDA a : /\ a.hasDueDate
                       /\ DateLE(day, StartOfDay(NewDate(a.dueDate)))
                       /\ DateLE(StartOfDay(NewDate(a.dueDate)), ViewOneWeekOut(day)))
    ELSE items

\* toRender of renderAssignmentsFiltered
ToRender(filtered, searchQuery, sortBy, showAll, defaultView, day) ==
    LET searched == IF searchQuery # <<>>
                    THEN searchAssignments(filtered, searchQuery)
                    ELSE filtered
        sorted == sortAssignments(searched, sortBy)
    IN IF ~showAll THEN applyDefaultViewFilter(sorted, defaultView, day) ELSE sorted

\* the elements renderAssignmentsFiltered leaves in #assignments-list, each with its urgency class
renderAssignmentsFiltered(filtered, searchQuery, sortBy, showAll, defaultView, day) ==
    LET toRender == ToRender(filtered, searchQuery, sortBy, showAll, defaultView, day)
        els == revealItems(toRender)
    IN [i \in 1..Len(els) |->
           [url |-> els[i].url,
            announcementId |-> els[i].announcementId,
            item |-> els[i].item,
            urgencyClass |-> toRender[i].urgency]]

-----------------------------------------------------------------------------
(* Notifications *)

\* tomorrow: the start of the day after t
Tomorrow(t) == StartOfDay(AddDays(DateOf(t), 1))

\* IsDueSoon without the test of the submission status
IsDueSoonAnyStatus(a, tomorrow) ==
    /\ a.hasDueDate
    /\ DateLE(NewDate(a.dueDate), tomorrow)

\* the filter callback of `urgent`
IsDueSoon(a, tomorrow) ==
    /\ a.hasDueDate
    /\ DateLE(NewDate(a.dueDate), tomorrow)
    /\ a.status = "Not submitted"

UrgentTitle(n) ==
    IF n = 1 THEN "1 assignment due soon"
    ELSE ToString(n) \o " assignments due soon"

\* urgent.slice(0, 2).map(a => `${a.course}: ${a.shortName}`).join(', ')
UrgentBody(urgent) ==
    Join([i \in 1..Min(BodyItems, Len(urgent)) |->
            urgent[i].course \o <<":", " ">> \o urgent[i].shortName])

\* new Date(expiration + 'T00:00:00'): local midnight of the configured day
ExpiryDate(expiration) ==
    IF expiration.kind = "iso" THEN DateOf(expiration.t * DayLen) ELSE InvalidDate

\* Math.ceil(msUntil / (1000 * 60 * 60 * 24))
DaysUntil(expiryDate, t) == CeilDiv(expiryDate.time - t, DayLen)

\* ExpiryEligible without the look-up of the dedup key
ExpiryEligibleNoDedup(daysUntil, expiration, keys) ==
    /\ daysUntil >= 0
    /\ daysUntil <= WarnDays

\* daysUntil >= 0 && daysUntil <= 7 && !localStorage.getItem(notifyKey)
ExpiryEligible(daysUntil, expiration, keys) ==
    /\ daysUntil >= 0
    /\ daysUntil <= WarnDays
    /\ expiration \notin keys

ExpiryNotification(daysUntil) ==
    [title |-> "Canvas token expiring soon",
     body |-> <<"Your Canvas API token expires in ", ToString(daysUntil),
                IF daysUntil = 1 THEN " day." ELSE " days.">>,
     tag |-> "canvas-token-expiry"]

\* ShouldRequest without the test for a denied permission
ShouldRequestAlways(perm) == TRUE

\* else if (Notification.permission !== 'denied')
ShouldRequest(perm) == perm # "denied"

NoPass == [ran |-> FALSE, requested |-> FALSE, notifications |-> <<>>]

\* one call of sendNotifications at instant t: the notifications it constructs, whether it
\* requests permission, and the dedup keys it leaves
sendNotifications(assignments, config, t, supported, perm, keys) ==
    IF ~supported
    THEN [ran |-> TRUE, requested |-> FALSE, notifications |-> <<>>, keys |-> keys]
    ELSE IF perm = "granted"
    THEN LET tomorrow == Tomorrow(t)
             dueSoon(a) == IsDueSoon(a, tomorrow)
             urgent == SelectSeq(assignments, dueSoon)
             first == IF Len(urgent) > 0
                      THEN <<[title |-> UrgentTitle(Len(urgent)),
                              body |-> UrgentBody(urgent),
                              tag |-> "assignment-urgent"]>>
                      ELSE <<>>
             expiration == config.token_expiration
             expiryDate == ExpiryDate(expiration)
             fires == /\ expiration.kind # "absent"
                      /\ expiryDate.kind = "date"
                      /\ ExpiryEligible(DaysUntil(expiryDate, t), expiration, keys)
         IN [ran |-> TRUE,
             requested |-> FALSE,
             notifications |->
                 IF fires
                 THEN first \o <<ExpiryNotification(DaysUntil(expiryDate, t))>>
                 ELSE first,
             keys |-> IF fires THEN keys \cup {expiration} ELSE keys]
    ELSE IF ShouldRequest(perm)
    THEN [ran |-> TRUE, requested |-> TRUE, notifications |-> <<>>, keys |-> keys]
    ELSE [ran |-> TRUE, requested |-> FALSE, notifications |-> <<>>, keys |-> keys]

-----------------------------------------------------------------------------
(* The inputs the model draws from *)

NoSubmission ==
    [present |-> FALSE, workflow_state |-> "", grade |-> "", preview_url |-> ""]
Submission(state, grade) ==
    [present |-> TRUE, workflow_state |-> state, grade |-> grade,
     preview_url |-> "https://canvas/preview"]

SlotCourse(i) == IF i % 2 = 1 THEN <<"C", "S">> ELSE <<"M", "A">>
SlotName(i) ==
    IF i = 2 THEN Rep("L", DefaultMaxLen + 5) ELSE <<"h", "w", ToString(i)>>

\* what the assignment in position i of a feed may be
SlotChoices(i) ==
    IF i % 3 = 1
    THEN {[due_at |-> Iso(DayLen), submission |-> NoSubmission],
          [due_at |-> Iso(DayLen), submission |-> Submission("submitted", "")]}
    ELSE IF i % 3 = 2
    THEN {[due_at |-> Iso(DayLen + 1), submission |-> Submission("unsubmitted", "")],
          [due_at |-> NoTimestamp, submission |-> NoSubmission]}
    ELSE {[due_at |-> Iso(0), submission |-> NoSubmission],
          [due_at |-> Garbage, submission |-> NoSubmission]}

RawAssignment(i, c) ==
    [course |-> SlotCourse(i), name |-> SlotName(i),
     due_at |-> c.due_at, submission |-> c.submission]

AssignmentFeeds ==
    UNION {{[i \in 1..n |-> RawAssignment(i, f[i])] :
              f \in {g \in [1..n -> UNION {SlotChoices(i) : i \in 1..n}] :
                        \A i \in 1..n : g[i] \in SlotChoices(i)}} :
           n \in 0..MaxAssignments}

Ann(i) ==
    [course |-> <<"C", "S", " ", "1">>,
     title |-> IF i % 2 = 0 THEN <<"Q", " ", " ", ToString(i)>> ELSE <<"T", ToString(i)>>,
     posted |-> IF i % 2 = 1 THEN Iso(0) ELSE NoTimestamp,
     url |-> IF i = 2 THEN "" ELSE "https://canvas/a" \o ToString(i)]

AnnouncementFeeds == {[j \in 1..n |-> Ann(j)] : n \in 1..MaxAnnouncements}

Ids == {AnnouncementId(Ann(i)) : i \in 1..MaxAnnouncements}
PostedAts == {1, 2}

Feeds ==
    {[assignments |-> s, announcements |-> <<>>] : s \in AssignmentFeeds}
    \cup {[assignments |-> <<>>, announcements |-> s] : s \in AnnouncementFeeds}

\* configured expirations: none, unparseable text, day 0 and the day after the warning window of day 0
Expirations == {NoTimestamp, Garbage, Iso(0), Iso(WarnDays + 1)}
Configs == {[token_expiration |-> e] : e \in Expirations}

\* names for the normalizer alone: an optional lead "q- ", a run of i letters, a separator or
\* none, sp spaces, a run of j letters
NameOf(lead, i, sep, sp, j) ==
    lead \o Rep("a", i) \o sep \o Rep(" ", sp) \o Rep("b", j)
NameInputs ==
    {NameOf(lead, i, sep, sp, j) :
        lead \in {<<>>, <<"q", "-", " ">>},
        i \in 0..MaxPrefix,
        sep \in {<<>>} \cup {<<c>> : c \in Separators},
        sp \in 0..1,
        j \in 0..MaxSuffix}

DueInputs ==
    {NoTimestamp, Garbage} \cup {Iso(t) : t \in 0..(MaxNow + (WeekDays + 2) * DayLen)}
SubmissionInputs ==
    {NoSubmission, Submission("graded", "A"), Submission("graded", ""),
     Submission("submitted", ""), Submission("unsubmitted", "")}

NameFeeds ==
    {[assignments |-> <<[course |-> <<"C", "S">>, name |-> n,
                         due_at |-> NoTimestamp, submission |-> NoSubmission]>>,
      announcements |-> <<>>] : n \in NameInputs}
DueFeeds ==
    {[assignments |-> <<[course |-> <<"C", "S">>, name |-> <<"h", "w">>,
                         due_at |-> d, submission |-> sub]>>,
      announcements |-> <<>>] : d \in DueInputs, sub \in SubmissionInputs}

\* the assignment list: an assignment due earlier today or ten days from now, one due on the
\* last instant of the week window or the first instant after it, one with no or a bad date
LoadInstant == 1
ViewChoices(i) ==
    IF i % 3 = 1
    THEN {[due_at |-> Iso(0), submission |-> NoSubmission],
          [due_at |-> Iso(LoadInstant + 10 * DayLen), submission |-> NoSubmission]}
    ELSE IF i % 3 = 2
    THEN {[due_at |-> Iso((WeekDays + 1) * DayLen - 1), submission |-> Submission("submitted", "")],
          [due_at |-> Iso((WeekDays + 1) * DayLen), submission |-> Submission("submitted", "")]}
    ELSE {[due_at |-> NoTimestamp, submission |-> NoSubmission],
          [due_at |-> Garbage, submission |-> Submission("graded", "A")]}

ViewName(i) == IF i % 2 = 0 THEN <<"L", "a", "b">> ELSE <<"h", "w", ToString(i)>>

ViewFeeds ==
    {[assignments |-> [i \in 1..MaxAssignments |->
                          [course |-> SlotCourse(i), name |-> ViewName(i),
                           due_at |-> f[i].due_at, submission |-> f[i].submission]],
      announcements |-> <<>>] :
        f \in {g \in [1..MaxAssignments -> UNION {ViewChoices(i) : i \in 1..MaxAssignments}] :
                  \A i \in 1..MaxAssignments : g[i] \in ViewChoices(i)}}

\* the dated assignments only (the default) under each default view, the undated ones too
\* under two of them, and the completed ones hidden under two
FilterConfigs ==
    {[hideNoDueDate |-> "unset", hideCompleted |-> FALSE, defaultView |-> v] :
        v \in {"", "day", "week", "all"}}
    \cup {[hideNoDueDate |-> "false", hideCompleted |-> FALSE, defaultView |-> v] :
        v \in {"week", "all"}}
    \cup {[hideNoDueDate |-> h, hideCompleted |-> TRUE, defaultView |-> "all"] :
        h \in {"true", "false"}}

\* nothing, part of a name in its own case, a course in the other case
Queries == {<<>>, <<"h", "w">>, <<"m">>}
SortKeys == {"due-asc", "due-desc", "course", "status"}

\* lists for sortAssignments alone
SortDues == {NoTimestamp, Garbage, Iso(0), Iso(1), Iso(DayLen + 1)}
SortFeeds ==
    UNION {{[assignments |-> [i \in 1..n |->
                 RawAssignment(i, [due_at |-> f[i],
                                   submission |-> IF i % 2 = 0 THEN NoSubmission
                                                  ELSE Submission("submitted", "")])],
             announcements |-> <<>>] : f \in [1..n -> SortDues]} :
           n \in 0..MaxAssignments}

-----------------------------------------------------------------------------
(* The state machine *)

NoOp == [op |-> "none", id |-> <<>>, t |-> 0, threw |-> FALSE, opened |-> ""]

\* no renderAssignmentsFiltered call yet, no listener yet, no sort applied yet
NoRender == [searchQuery |-> <<>>, sortBy |-> "none"]
NoListeners == [assignments |-> 0, announcements |-> 0]
NoSortResults == [k \in {} |-> <<>>]

InitPage ==
    /\ allAssignments = <<>>
    /\ allAnnouncements = <<>>
    /\ announcementsList = <<>>
    /\ lastPass = NoPass
    /\ expiryFired = [e \in Expirations |-> 0]
    /\ lastOp = NoOp
    /\ reshortened = <<>>
    /\ promptOpen = FALSE
    /\ notifyKeys = {}
    /\ filteredAssignments = <<>>
    /\ renderToday = NullDate
    /\ showAllAssignments = FALSE
    /\ toggleText = "Show all"
    /\ searchValue = <<>>
    /\ sortValue = "due-asc"
    /\ assignmentsList = <<>>
    /\ lastRender = NoRender
    /\ clickListeners = NoListeners
    /\ windowsOpened = 0
    /\ sortResults = NoSortResults

Init ==
    /\ InitPage
    /\ pc = "unloaded"
    /\ now = 0
    /\ userConfig \in Configs
    /\ assignmentFilters = NoFilters
    /\ canvasData \in Feeds
    /\ hasNotification \in BOOLEAN
    \* the permission matters only where the Notification API exists,
    \* the ledger only where there are announcements
    /\ permission \in IF hasNotification THEN {"default", "granted", "denied"}
                      ELSE {"default"}
    /\ seenStored \in IF canvasData.announcements = <<>> THEN {NotStored}
                      ELSE {NotStored,
                            JSONstringify(Assign(EmptyLedger, AnnouncementId(Ann(1)), 1))}

\* a page load: renderDashboard from its first line to its last, sendNotifications included
RenderDashboard ==
    /\ pc \in {"unloaded", "ready", "failed"}
    /\ LET assignments == formatAssignmentData(canvasData, now)
           filtered == ConfiguredFilters(assignments, assignmentFilters)
           day == StartOfDay(DateOf(now))
           anns == formatAnnouncementData(canvasData, seenStored)
       IN IF anns.threw
          THEN /\ pc' = "failed"
               /\ allAssignments' = <<>>
               /\ allAnnouncements' = <<>>
               /\ announcementsList' = <<>>
               /\ lastPass' = NoPass
               /\ lastOp' = [NoOp EXCEPT !.op = "render", !.threw = TRUE]
               /\ filteredAssignments' = <<>>
               /\ renderToday' = NullDate
               /\ assignmentsList' = <<>>
               /\ lastRender' = NoRender
               /\ clickListeners' = NoListeners
               /\ UNCHANGED <<notifyKeys, promptOpen, expiryFired>>
          ELSE LET unseen == SelectSeq(anns.value, LAMBDA a : ~a.isSeen)
                   pass == sendNotifications(assignments, userConfig, now,
                                             hasNotification, permission, notifyKeys)
                   fired == pass.keys \ notifyKeys
               IN /\ pc' = "ready"
                  /\ allAssignments' = assignments
                  /\ allAnnouncements' = anns.value
                  /\ announcementsList' = revealItems(Substring0(unseen, DefaultSlice))
                  /\ lastPass' = [ran |-> pass.ran, requested |-> pass.requested,
                                  notifications |-> pass.notifications]
                  /\ notifyKeys' = pass.keys
                  /\ promptOpen' = (promptOpen \/ pass.requested)
                  /\ expiryFired' =
                        [e \in Expirations |->
                            IF \E k \in 1..Len(pass.notifications) :
                                   /\ pass.notifications[k].tag = "canvas-token-expiry"
                                   /\ e = userConfig.token_expiration
                            THEN Min(expiryFired[e] + 1, 2)
                            ELSE expiryFired[e]]
                  /\ lastOp' = [NoOp EXCEPT !.op = "render"]
                  /\ filteredAssignments' = filtered
                  /\ renderToday' = day
                  /\ assignmentsList' =
                        renderAssignmentsFiltered(filtered, <<>>, "due-asc", FALSE,
                                                  DefaultViewOf(assignmentFilters), day)
                  /\ lastRender' = [searchQuery |-> <<>>, sortBy |-> "due-asc"]
                  /\ clickListeners' = [assignments |-> 1, announcements |-> 1]
    \* a fresh document: the controls as the template has them
    /\ showAllAssignments' = FALSE
    /\ toggleText' = "Show all"
    /\ searchValue' = <<>>
    /\ sortValue' = "due-asc"
    /\ windowsOpened' = 0
    /\ UNCHANGED <<now, userConfig, canvasData, hasNotification, permission,
                   seenStored, reshortened, assignmentFilters, sortResults>>

\* the user clicks item i of the announcements list
ClickItem(i) ==
    /\ pc = "ready"
    /\ i \in 1..Len(announcementsList)
    /\ LET r == ClickHandler(announcementsList[i], seenStored, now)
       IN /\ seenStored' = r.stored
          /\ lastOp' = [op |-> "click", id |-> announcementsList[i].item.id,
                        t |-> now, threw |-> r.threw, opened |-> r.opened]
          \* every attached listener runs the same handler on the same element
          /\ windowsOpened' = IF r.opened # "" THEN clickListeners.announcements ELSE 0
    /\ UNCHANGED <<now, userConfig, canvasData, hasNotification, permission,
                   promptOpen, notifyKeys, pc, allAssignments, allAnnouncements,
                   announcementsList, lastPass, expiryFired, reshortened,
                   assignmentFilters, viewVars, clickListeners, sortResults>>

ClickAnnouncement == \E i \in 1..MaxAnnouncements : ClickItem(i)

\* the view-all-announcements link
ViewAllAnnouncements ==
    /\ pc = "ready"
    /\ clickListeners.announcements < MaxListeners
    /\ announcementsList' = revealItems(allAnnouncements)
    /\ clickListeners' = [clickListeners EXCEPT !.announcements = @ + 1]
    /\ lastOp' = [NoOp EXCEPT !.op = "viewAll"]
    /\ windowsOpened' = 0
    /\ UNCHANGED <<now, userConfig, canvasData, hasNotification, permission,
                   promptOpen, seenStored, notifyKeys, pc, allAssignments,
                   allAnnouncements, lastPass, expiryFired, reshortened,
                   assignmentFilters, viewVars, sortResults>>

\* what a UI event that re-renders the assignment list leaves behind
Rerender(searchQuery, sortBy, showAll) ==
    /\ pc = "ready"
    /\ clickListeners.assignments < MaxListeners
    /\ assignmentsList' =
          renderAssignmentsFiltered(filteredAssignments, searchQuery, sortBy, showAll,
                                    DefaultViewOf(assignmentFilters), renderToday)
    /\ lastRender' = [searchQuery |-> searchQuery, sortBy |-> sortBy]
    /\ showAllAssignments' = showAll
    /\ clickListeners' = [clickListeners EXCEPT !.assignments = @ + 1]
    /\ windowsOpened' = 0
    /\ UNCHANGED <<now, userConfig, canvasData, hasNotification, permission,
                   promptOpen, seenStored, notifyKeys, pc, allAssignments,
                   allAnnouncements, announcementsList, lastPass, expiryFired,
                   reshortened, assignmentFilters, filteredAssignments, renderToday,
                   sortResults>>

\* the user edits the search box
SearchInput ==
    \E q \in Queries :
        /\ q # searchValue
        /\ Rerender(q, sortValue, showAllAssignments)
        /\ searchValue' = q
        /\ lastOp' = [NoOp EXCEPT !.op = "search"]
        /\ UNCHANGED <<sortValue, toggleText>>

\* the user selects another sort key
SortChange ==
    \E k \in SortKeys :
        /\ k # sortValue
        /\ Rerender(searchValue, k, showAllAssignments)
        /\ sortValue' = k
        /\ lastOp' = [NoOp EXCEPT !.op = "sort"]
        /\ UNCHANGED <<searchValue, toggleText>>

\* the user clicks #toggle-assignments
ToggleClick ==
    /\ IF toggleText = "Show all"
       THEN /\ Rerender(searchValue, sortValue, TRUE)
            /\ toggleText' = "Show less"
       ELSE /\ Rerender(<<>>, "due-asc", FALSE)
            /\ toggleText' = "Show all"
    /\ lastOp' = [NoOp EXCEPT !.op = "toggle"]
    /\ UNCHANGED <<searchValue, sortValue>>

\* the view-all-assignments link
ViewAllAssignments ==
    /\ Rerender(searchValue, sortValue, TRUE)
    /\ toggleText' = "Show less"
    /\ lastOp' = [NoOp EXCEPT !.op = "viewAllAssignments"]
    /\ UNCHANGED <<searchValue, sortValue>>

\* the user clicks item i of the assignments list
ClickAssignmentItem(i) ==
    /\ pc = "ready"
    /\ i \in 1..Len(assignmentsList)
    /\ LET r == ClickHandler(assignmentsList[i], seenStored, now)
       IN /\ seenStored' = r.stored
          /\ lastOp' = [op |-> "clickAssignment", id |-> <<>>,
                        t |-> now, threw |-> r.threw, opened |-> r.opened]
          /\ windowsOpened' = IF r.opened # "" THEN clickListeners.assignments ELSE 0
    /\ UNCHANGED <<now, userConfig, canvasData, hasNotification, permission,
                   promptOpen, notifyKeys, pc, allAssignments, allAnnouncements,
                   announcementsList, lastPass, expiryFired, reshortened,
                   assignmentFilters, viewVars, clickListeners, sortResults>>

ClickAssignment == \E i \in 1..MaxAssignments : ClickAssignmentItem(i)

\* a caller reports that announcement id was opened
MarkSeenCall(id, postedAt) ==
    /\ LET r == markAnnouncementSeen(seenStored, id, postedAt)
       IN /\ seenStored' = r.stored
          /\ lastOp' = [op |-> "markSeen", id |-> id, t |-> postedAt,
                        threw |-> r.threw, opened |-> ""]
    /\ windowsOpened' = 0
    /\ UNCHANGED <<now, userConfig, canvasData, hasNotification, permission,
                   promptOpen, notifyKeys, pc, allAssignments, allAnnouncements,
                   announcementsList, lastPass, expiryFired, reshortened,
                   assignmentFilters, viewVars, clickListeners, sortResults>>

MarkSeen == \E id \in Ids, postedAt \in PostedAts : MarkSeenCall(id, postedAt)

\* the clock advances
Tick ==
    /\ now < MaxNow
    /\ now' = now + 1
    /\ UNCHANGED <<userConfig, canvasData, hasNotification, permission, promptOpen,
                   seenStored, notifyKeys, pc, allAssignments, allAnnouncements,
                   announcementsList, lastPass, expiryFired, lastOp, reshortened,
                   assignmentFilters, viewVars, clickListeners, windowsOpened, sortResults>>

\* the configuration file is rewritten with another token expiration
EditConfig ==
    /\ \E c \in Configs : c # userConfig /\ userConfig' = c
    /\ UNCHANGED <<now, canvasData, hasNotification, permission, promptOpen,
                   seenStored, notifyKeys, pc, allAssignments, allAnnouncements,
                   announcementsList, lastPass, expiryFired, lastOp, reshortened,
                   assignmentFilters, viewVars, clickListeners, windowsOpened, sortResults>>

\* the user answers the prompt Notification.requestPermission() opened
AnswerPrompt ==
    /\ promptOpen
    /\ permission = "default"
    /\ permission' \in {"granted", "denied"}
    /\ promptOpen' = FALSE
    /\ UNCHANGED <<now, userConfig, canvasData, hasNotification, seenStored,
                   notifyKeys, pc, allAssignments, allAnnouncements,
                   announcementsList, lastPass, expiryFired, lastOp, reshortened,
                   assignmentFilters, viewVars, clickListeners, windowsOpened, sortResults>>

\* the deployed page and its environment
Next ==
    \/ RenderDashboard
    \/ ClickAnnouncement
    \/ ViewAllAnnouncements
    \/ Tick
    \/ EditConfig
    \/ AnswerPrompt

Spec == Init /\ [][Next]_vars

\* the seen-state store called directly, beside the page, with notifications denied
InitStore ==
    /\ InitPage
    /\ pc = "unloaded"
    /\ now = 0
    /\ userConfig = [token_expiration |-> NoTimestamp]
    /\ assignmentFilters = NoFilters
    /\ canvasData \in {f \in Feeds : f.assignments = <<>>}
    /\ hasNotification = TRUE
    /\ permission = "denied"
    /\ seenStored = NotStored

NextStore ==
    \/ RenderDashboard
    \/ MarkSeen
    \/ ClickAnnouncement
    \/ ViewAllAnnouncements

SpecStore == InitStore /\ [][NextStore]_vars

\* the same, where the stored ledger may have been overwritten with text that is no JSON
InitCorrupt ==
    /\ InitPage
    /\ pc = "unloaded"
    /\ now = 0
    /\ userConfig = [token_expiration |-> NoTimestamp]
    /\ assignmentFilters = NoFilters
    /\ canvasData \in {f \in Feeds : f.assignments = <<>>}
    /\ hasNotification = TRUE
    /\ permission = "denied"
    /\ seenStored \in {NotStored, Corrupted}

SpecCorrupt == InitCorrupt /\ [][NextStore]_vars

\* the assignment normalizer alone: one raw assignment, normalized at instant now,
\* and its short name shortened once more
InitFormat ==
    /\ InitPage
    /\ pc = "input"
    /\ userConfig = [token_expiration |-> NoTimestamp]
    /\ assignmentFilters = NoFilters
    /\ hasNotification = TRUE
    /\ permission = "denied"
    /\ seenStored = NotStored
    /\ \/ now = 0 /\ canvasData \in NameFeeds
       \/ now \in 0..MaxNow /\ canvasData \in DueFeeds

FormatAssignments ==
    /\ pc = "input"
    /\ pc' = "formatted"
    /\ allAssignments' = formatAssignmentData(canvasData, now)
    /\ UNCHANGED <<now, userConfig, canvasData, hasNotification, permission,
                   promptOpen, seenStored, notifyKeys, allAnnouncements,
                   announcementsList, lastPass, expiryFired, lastOp, reshortened,
                   assignmentFilters, viewVars, clickListeners, windowsOpened, sortResults>>

ShortenAgain ==
    /\ pc = "formatted"
    /\ pc' = "reshortened"
    /\ reshortened' = [i \in 1..Len(allAssignments) |->
                          shortenAssignmentName(allAssignments[i].shortName, DefaultMaxLen)]
    /\ UNCHANGED <<now, userConfig, canvasData, hasNotification, permission,
                   promptOpen, seenStored, notifyKeys, allAssignments,
                   allAnnouncements, announcementsList, lastPass, expiryFired, lastOp,
                   assignmentFilters, viewVars, clickListeners, windowsOpened, sortResults>>

NextFormat == FormatAssignments \/ ShortenAgain

SpecFormat == InitFormat /\ [][NextFormat]_vars

\* the page with its assignment controls, loaded at LoadInstant with notifications denied
InitView ==
    /\ InitPage
    /\ pc = "unloaded"
    /\ now = LoadInstant
    /\ userConfig = [token_expiration |-> NoTimestamp]
    /\ assignmentFilters \in FilterConfigs
    /\ canvasData \in ViewFeeds
    /\ hasNotification = TRUE
    /\ permission = "denied"
    /\ seenStored = NotStored

NextView ==
    \/ RenderDashboard
    \/ SearchInput
    \/ SortChange
    \/ ToggleClick
    \/ ViewAllAssignments
    \/ ClickAssignment

SpecView == InitView /\ [][NextView]_vars

\* sortAssignments alone: a list is normalized, then sorted by one key after another
InitSort ==
    /\ InitPage
    /\ pc = "input"
    /\ now = 0
    /\ userConfig = [token_expiration |-> NoTimestamp]
    /\ assignmentFilters = NoFilters
    /\ canvasData \in SortFeeds
    /\ hasNotification = TRUE
    /\ permission = "denied"
    /\ seenStored = NotStored

SortAssignments ==
    /\ pc = "formatted"
    /\ \E k \in SortKeys \ DOMAIN sortResults :
          sortResults' = sortResults @@ (k :> sortAssignments(allAssignments, k))
    /\ UNCHANGED <<now, userConfig, canvasData, hasNotification, permission,
                   promptOpen, seenStored, notifyKeys, pc, allAssignments,
                   allAnnouncements, announcementsList, lastPass, expiryFired, lastOp,
                   reshortened, assignmentFilters, viewVars, clickListeners,
                   windowsOpened>>

NextSort == FormatAssignments \/ SortAssignments

SpecSort == InitSort /\ [][NextSort]_vars

-----------------------------------------------------------------------------
(* Notification policy: claims C1 to C3 *)

\* a page load whose notification pass ran to its permission check
PassRan == RenderDashboard /\ pc' = "ready" /\ hasNotification

ExpiryNotes(pass) ==
    {k \in 1..Len(pass.notifications) : pass.notifications[k].tag = "canvas-token-expiry"}
UrgentNotes(pass) ==
    {k \in 1..Len(pass.notifications) : pass.notifications[k].tag = "assignment-urgent"}

\* the configured expiration e is a date whose whole days until expiry, rounded up, are d at instant t
DaysLeftIs(e, t, d) ==
    /\ e.kind = "iso"
    /\ (d - 1) * DayLen < e.t * DayLen - t
    /\ e.t * DayLen - t <= d * DayLen

\* C1: with permission granted, a notification pass emits the credential-expiry
\* notification iff the configured date is 0 to 7 days away and the dedup key of that
\* exact date is not set; it then states the day count and sets that key; over any
\* sequence of passes no date is notified more than once, whatever other dates fired.
C1_ExpiryOncePerDate ==
    [][/\ \A e \in Expirations : expiryFired'[e] <= 1
       /\ (PassRan /\ permission = "granted") =>
            LET e == userConfig.token_expiration
                inWindow == \E d \in 0..WarnDays : DaysLeftIs(e, now, d)
                notes == ExpiryNotes(lastPass')
            IN /\ (notes # {}) <=> (inWindow /\ e \notin notifyKeys)
               /\ Cardinality(notes) <= 1
               /\ \A k \in notes :
                     \E d \in 0..WarnDays :
                        /\ DaysLeftIs(e, now, d)
                        /\ lastPass'.notifications[k].body[2] = ToString(d)
               /\ notifyKeys' = IF notes # {} THEN notifyKeys \cup {e} ELSE notifyKeys
      ]_vars

\* two different dates have each been notified once, the second in the latest pass
C1_Witness ==
    /\ expiryFired[Iso(0)] = 1
    /\ expiryFired[Iso(WarnDays + 1)] = 1
    /\ ExpiryNotes(lastPass) # {}
    /\ notifyKeys = {Iso(0), Iso(WarnDays + 1)}

\* C2: a pass with permission undecided only requests permission (no notification,
\* no dedup key written); a pass with permission denied emits nothing, requests
\* nothing and writes nothing; notifications are emitted only with permission granted.
C2_PermissionGate ==
    [][PassRan =>
         /\ permission = "default" =>
               /\ lastPass'.requested
               /\ promptOpen'
               /\ lastPass'.notifications = <<>>
               /\ notifyKeys' = notifyKeys
         /\ permission = "denied" =>
               /\ ~lastPass'.requested
               /\ promptOpen' = promptOpen
               /\ lastPass'.notifications = <<>>
               /\ notifyKeys' = notifyKeys
         /\ lastPass'.notifications # <<>> => permission = "granted"
         /\ permission = "granted" => ~lastPass'.requested
      ]_vars

\* an undecided pass over a feed with an assignment due soon and an expiration in its
\* window asked for permission and emitted nothing
C2_Witness ==
    /\ lastPass.ran
    /\ lastPass.requested
    /\ lastPass.notifications = <<>>
    /\ permission = "default"
    /\ promptOpen
    /\ notifyKeys = {}
    /\ userConfig.token_expiration = Iso(0)
    /\ now = 0
    /\ \E i \in 1..Len(allAssignments) :
          allAssignments[i].status = "Not submitted" /\ allAssignments[i].dueDate = Iso(0)

\* the positions of the assignments due soon at instant t: a due date that is an instant
\* no later than the start of tomorrow, and not submitted
DueSoonAt(views, t) ==
    {i \in 1..Len(views) :
        /\ views[i].hasDueDate
        /\ views[i].dueDate.kind = "iso"
        /\ views[i].dueDate.t <= (t - (t % DayLen)) + DayLen
        /\ views[i].status = "Not submitted"}

Least(S) == CHOOSE i \in S : \A j \in S : i <= j

BodyLine(a) == a.course \o <<":", " ">> \o a.shortName

-----------------------------------------------------------------------------
(* Seen-state store: claims C4 to C6 *)

\* the ledger a stored value holds
Ledger(stored) == IF stored.kind = "json" THEN stored.obj ELSE EmptyLedger
Seen(stored, id) == id \in DOMAIN Ledger(stored)

\* C4: when the user clicks an announcement item of the announcements list, that
\* announcement's id is a key of the seen ledger afterwards, and the normalization pass
\* of the next page load reports isSeen = true for it.
C4_ClickMarksSeen ==
    [][/\ \A i \in 1..MaxAnnouncements :
             ClickItem(i) => Seen(seenStored', announcementsList[i].item.id)
       /\ (RenderDashboard /\ lastOp.op = "click") =>
             \A i \in 1..Len(allAnnouncements') :
                allAnnouncements'[i].id = lastOp.id => allAnnouncements'[i].isSeen
      ]_vars

\* C5: markSeen(id, t) leaves ledger[id] = t and every other entry as it was, whatever
\* the ledger held; isSeen(id) is then true, and stays true over every later markSeen,
\* click and normalization pass (no operation removes a key), each pass reporting
\* isSeen exactly for the keys of the ledger; a second markSeen(id, t) changes nothing.
C5_MarkSeenUpsert ==
    [][/\ \A id \in Ids : Seen(seenStored, id) => Seen(seenStored', id)
       /\ RenderDashboard =>
             \A i \in 1..Len(allAnnouncements') :
                /\ i <= Len(canvasData.announcements)
                /\ allAnnouncements'[i].isSeen = Seen(seenStored', allAnnouncements'[i].id)
       /\ \A id \in Ids, t \in PostedAts :
             MarkSeenCall(id, t) =>
                LET old == Ledger(seenStored)
                    new == Ledger(seenStored')
                IN /\ ~lastOp'.threw
                   /\ seenStored'.kind = "json"
                   /\ DOMAIN new = (DOMAIN old) \cup {id}
                   /\ new[id] = t
                   /\ \A k \in (DOMAIN old) \ {id} : new[k] = old[k]
                   /\ isAnnouncementSeen(seenStored', id).value
                   /\ markAnnouncementSeen(seenStored', id, t).stored = seenStored'
      ]_vars

\* a markSeen overwrote an entry of a ledger of several keys, and a pass after it
\* reported the announcement seen
C5_Witness ==
    /\ lastOp.op = "render"
    /\ Cardinality(DOMAIN Ledger(seenStored)) >= 2
    /\ \E id \in DOMAIN Ledger(seenStored) : Ledger(seenStored)[id] = 2
    /\ \E i \in 1..Len(allAnnouncements) : allAnnouncements[i].isSeen

\* C6: a stored ledger that does not parse is read as the empty ledger and nothing
\* fails: getAll returns the empty mapping, isSeen is false for every id, markSeen
\* succeeds and leaves exactly {id: t}, and a page load completes its normalization.
C6_CorruptLedgerTolerated ==
    /\ ~lastOp.threw
    /\ pc # "failed"
    /\ lastOp.op = "markSeen" =>
          /\ seenStored.kind = "json"
          /\ Ledger(seenStored)[lastOp.id] = lastOp.t
    /\ lastOp.op = "render" =>
          \A i \in 1..Len(allAnnouncements) :
             /\ i <= Len(canvasData.announcements)
             /\ allAnnouncements[i].isSeen = Seen(seenStored, allAnnouncements[i].id)

-----------------------------------------------------------------------------
(* Assignment normalizer: claims C7 to C10 *)

Normalized == pc \in {"formatted", "reshortened"}

\* the last instant of the week window of instant t: the start of t's day plus seven
\* days, at the last tick of that day
WeekWindowEnd(t) == (t - (t % DayLen)) + WeekDays * DayLen + (DayLen - 1)

\* C7: hasDueDate is true exactly when the raw due_at is present and parses to an
\* instant; without a due date the urgency is neither today nor week and isUrgent is false.
C7_HasDueDateIffValid ==
    Normalized =>
        \A i \in 1..Len(allAssignments) :
           LET raw == canvasData.assignments[i]
               view == allAssignments[i]
           IN /\ view.hasDueDate <=> raw.due_at.kind = "iso"
              /\ ~view.hasDueDate =>
                    /\ view.urgency \notin {"today", "week"}
                    /\ ~view.isUrgent

\* C8 as stated: isUrgent iff now <= due <= weekWindow(now).end
C8_UrgentFromNow ==
    Normalized =>
        \A i \in 1..Len(allAssignments) :
           LET raw == canvasData.assignments[i]
           IN raw.due_at.kind = "iso" =>
                 (allAssignments[i].isUrgent
                    <=> (now <= raw.due_at.t /\ raw.due_at.t <= WeekWindowEnd(now)))

\* C8, amended: for a valid due instant and any reference instant now, isUrgent is
\* true iff startOfDay(now) <= due <= weekWindow(now).end; an assignment due earlier
\* today than now is urgent.
C8_UrgentFromStartOfDay ==
    Normalized =>
        \A i \in 1..Len(allAssignments) :
           LET raw == canvasData.assignments[i]
           IN raw.due_at.kind = "iso" =>
                 (allAssignments[i].isUrgent
                    <=> (now - (now % DayLen) <= raw.due_at.t
                         /\ raw.due_at.t <= WeekWindowEnd(now)))

\* an assignment due earlier today than now was normalized as urgent
C8_Witness ==
    /\ pc = "formatted"
    /\ now % DayLen > 0
    /\ \E i \in 1..Len(allAssignments) :
          /\ canvasData.assignments[i].due_at.kind = "iso"
          /\ canvasData.assignments[i].due_at.t < now
          /\ canvasData.assignments[i].due_at.t >= now - (now % DayLen)
          /\ allAssignments[i].isUrgent

\* C9: the shortName of every AssignmentView has at most 45 characters.
C9_ShortNameAtMostMaxLen ==
    Normalized =>
        \A i \in 1..Len(allAssignments) :
           Len(allAssignments[i].shortName) <= DefaultMaxLen

\* C10: shortenName applied to a shortened name returns it unchanged.
C10_ShortenIdempotent ==
    pc = "reshortened" =>
        \A i \in 1..Len(allAssignments) :
           reshortened[i] = allAssignments[i].shortName

-----------------------------------------------------------------------------
(* The assignment list: claims C11 to C14 *)

\* the assignments #assignments-list shows, in order
Shown == [i \in 1..Len(assignmentsList) |-> assignmentsList[i].item]

\* the due instant of a view is on the calendar day of instant t
DueOnDayOf(a, t) ==
    /\ a.dueDate.kind = "iso"
    /\ a.dueDate.t \div DayLen = t \div DayLen

\* the due instant of a view is within [today, today+7d] of instant t, both ends included
DueInWeekOf(a, t) ==
    /\ a.dueDate.kind = "iso"
    /\ t - (t % DayLen) <= a.dueDate.t
    /\ a.dueDate.t <= WeekWindowEnd(t)

\* the list before any window: the configured set, searched and sorted as last asked
Unwindowed ==
    sortAssignments(searchAssignments(filteredAssignments, lastRender.searchQuery),
                    lastRender.sortBy)

TenDaysOut == Iso(now + 10 * DayLen)

\* C11: the list shows the searched and sorted set unwindowed when show-all is active or the
\* default view is "all", only its items due today when the default view is "day" and only
\* its items due within [today, today+7d] when it is "week" (or unset); an assignment due ten
\* days from now has urgency none, is not urgent, and is shown only under "all" or show-all.
C11_DefaultViewWindow ==
    pc = "ready" =>
        LET view == DefaultViewOf(assignmentFilters)
        IN /\ Shown =
                IF showAllAssignments \/ view = "all" THEN Unwindowed
                ELSE IF view = "day"
                     THEN SelectSeq(Unwindowed, LAMBDA a : DueOnDayOf(a, now))
                     ELSE SelectSeq(Unwindowed, LAMBDA a : DueInWeekOf(a, now))
           /\ \A i \in 1..Len(allAssignments) :
                 allAssignments[i].dueDate = TenDaysOut =>
                    /\ allAssignments[i].urgency = "none"
                    /\ ~allAssignments[i].isUrgent
           /\ \A i \in 1..Len(Shown) :
                 Shown[i].dueDate = TenDaysOut => (view = "all" \/ showAllAssignments)

\* the user has shown all and gone back: under the week view the assignment due in ten days
\* is hidden again while an assignment inside the week is shown
C11_Witness ==
    /\ pc = "ready"
    /\ lastOp.op = "toggle"
    /\ ~showAllAssignments
    /\ DefaultViewOf(assignmentFilters) = "week"
    /\ \E i \in 1..Len(filteredAssignments) : filteredAssignments[i].dueDate = TenDaysOut
    /\ \A i \in 1..Len(Shown) : Shown[i].dueDate # TenDaysOut
    /\ \E i \in 1..Len(Shown) : Shown[i].dueDate = Iso((WeekDays + 1) * DayLen - 1)

\* a view whose due date is a valid instant
HasValidDue(a) == a.dueDate.kind = "iso"

DueTimes(views) == [i \in 1..Len(views) |-> views[i].dueDate.t]

Reverse(seq) == [i \in 1..Len(seq) |-> seq[Len(seq) + 1 - i]]

IsPermutation(result, input) ==
    /\ Len(result) = Len(input)
    /\ \E p \in [1..Len(input) -> 1..Len(input)] :
          /\ \A i, j \in 1..Len(input) : p[i] = p[j] => i = j
          /\ \A i \in 1..Len(input) : result[i] = input[p[i]]

\* no item without a valid due date stands before one with a valid due date
UndatedLast(views) ==
    \A i, j \in 1..Len(views) :
        (i < j /\ HasValidDue(views[j])) => HasValidDue(views[i])

\* C12: whatever the key, sortAssignments returns a permutation of its input; when no date is
\* missing, the due instants of the due-asc result read backwards are those of the due-desc
\* result; in the due-asc and in the due-desc result every item with a missing or invalid due
\* date stands after all items with a valid one.
C12_SortPermutesAndOrders ==
    /\ \A k \in DOMAIN sortResults : IsPermutation(sortResults[k], allAssignments)
    /\ \A k \in DOMAIN sortResults \cap {"due-asc", "due-desc"} : UndatedLast(sortResults[k])
    /\ ({"due-asc", "due-desc"} \subseteq DOMAIN sortResults
          /\ \A i \in 1..Len(allAssignments) : HasValidDue(allAssignments[i]))
       => Reverse(DueTimes(sortResults["due-asc"])) = DueTimes(sortResults["due-desc"])

\* both directions were applied to a list that starts with an undated item followed by two
\* dated ones, the later date first
C12_Witness ==
    /\ {"due-asc", "due-desc"} \subseteq DOMAIN sortResults
    /\ Len(allAssignments) >= 3
    /\ ~HasValidDue(allAssignments[1])
    /\ HasValidDue(allAssignments[2])
    /\ HasValidDue(allAssignments[3])
    /\ allAssignments[2].dueDate.t > allAssignments[3].dueDate.t
    /\ sortResults["due-asc"][1] = allAssignments[3]
    /\ sortResults["due-desc"][1] = allAssignments[2]

\* C13: after any sequence of search, sort, toggle and view-all events the list shows the
\* configured set searched by the text now in the search box, sorted by the key now selected,
\* and windowed by the default view iff show-all is off.
C13_ListFollowsControls ==
    pc = "ready" =>
        Shown = ToRender(filteredAssignments, searchValue, sortValue, showAllAssignments,
                         DefaultViewOf(assignmentFilters), renderToday)

\* C14: a list container never has more than one click listener, so one click on an item
\* opens its URL once.
C14_OneClickListener ==
    /\ clickListeners.assignments <= 1
    /\ clickListeners.announcements <= 1
    /\ windowsOpened <= 1
====
